---- MODULE Spec2Model ----
(***************************************************************************)
(* Model of the newsletter-digest pipeline:                                *)
(*   gmail_ingest.py  fetch_newsletters (listing, per-message fetch,       *)
(*                    dedup, ordering), _walk_for_html                     *)
(*   weekly_agent.py  generate_weekly_brief (two-stage relevance           *)
(*                    pipeline), get_thursday_window, main                 *)
(*   slack_post.py    SlackBriefPoster (chunker, threaded delivery,        *)
(*                    DeliveryRecord)                                      *)
(* Texts are sequences of one-character strings.  Each subsystem has its   *)
(* own specification over the shared variables: SpecChunk, SpecIngest,     *)
(* SpecRank, SpecDelivery, SpecWindow and SpecWalk.                        *)
(***************************************************************************)
EXTENDS Integers, Sequences, FiniteSets, TLC

VARIABLES
    \* ---- chunker (slack_post.py, _split_at_sections / _split_content)
    content,        \* the text handed to the chunker
    max_length,     \* the ceiling handed to the chunker
    chunks,         \* the list the chunker returned
    cpc,            \* "input" before the call, "done" after it
    \* ---- two-stage relevance pipeline (weekly_agent.py, generate_weekly_brief)
    nDocs,                      \* len(emails): documents in the window
    priority_text,              \* what the ranking oracle answered
    high_priority_indexes,
    medium_priority_indexes,
    email_data,                 \* documents given detailed treatment
    summary_data,               \* documents given brief treatment
    rpc,                        \* "start", "ranked", "done", "raised"
    \* ---- ingestion (gmail_ingest.py, fetch_newsletters / fetch_context)
    ingest_fn,      \* "fetch_newsletters" or "fetch_context"
    window,         \* the window argument
    ids,            \* message ids collected by the listing loop
    token,          \* pageToken: 0 is None, k > 0 the cursor of page k + 1
    fetched,        \* how many ids the fetch loop has gone through
    items,          \* items / docs built so far, in fetch order
    result,         \* the returned list
    ipc,            \* "list", "fetch", "done", "raised"
    raised_by,      \* "none", or the call whose failure reached the caller
    seen,           \* history: the messages the get calls returned, in order
    \* ---- threaded delivery (slack_post.py, SlackBriefPoster.post_brief)
    records,        \* artifact paths whose <path>.slack_posted file exists
    ncalls,         \* post_brief calls begun so far
    call,           \* arguments of the latest call: path, brief, window
    dpc,            \* "idle", or the post the call in progress makes next:
                    \* "root", "replies", "sources", then "mark"
    posted,         \* sections of this call posted so far
    thread_ts,      \* thread id the root post returned, 0 before it
    trace,          \* posts of this call the target accepted, in order
    attempts,       \* chat_postMessage calls this call has made
    ret,            \* how the latest call ended
    delivered,      \* history: paths a call returned a thread id for
    fully_posted,   \* history: paths whose whole post sequence was accepted
    failed,         \* history: paths whose latest finished call raised
    stored,         \* per path, the brief main() wrote there (0: no file)
    posted_content, \* history: per path, the brief a run of main() posted
                    \* in full and recorded (0: none)
    \* ---- window calculator (weekly_agent.py, get_thursday_window)
    now,            \* datetime.now(tz): the calendar date in America/Denver
    date_str,       \* the display label
    wpc,            \* "start" before the call, "done" after it
    \* ---- MIME tree walker (gmail_ingest.py, _walk_for_html)
    payload,        \* m["payload"]: the body tree of the message
    html,           \* what _walk_for_html returned
    body_from,      \* what line 159 converts: "html" or "snippet"
    mpc             \* "start" before the call, "done" after it

chunkVars == <<content, max_length, chunks, cpc>>
rankVars == <<nDocs, priority_text, high_priority_indexes,
              medium_priority_indexes, email_data, summary_data, rpc>>

ingestVars == <<ingest_fn, window, ids, token, fetched, items, result, ipc,
                raised_by, seen>>

deliveryVars == <<records, ncalls, call, dpc, posted, thread_ts, trace,
                  attempts, ret, delivered, fully_posted, failed, stored,
                  posted_content>>

windowVars == <<now, date_str, wpc>>

walkVars == <<payload, html, body_from, mpc>>

vars == <<chunkVars, rankVars, ingestVars, deliveryVars, windowVars, walkVars>>

\* the chunker before any call
ChunkIdle ==
    /\ content = <<>>
    /\ max_length = 1
    /\ chunks = <<>>
    /\ cpc = "input"

\* ingestion before any call
IngestIdle ==
    /\ ingest_fn = "fetch_newsletters"
    /\ window = [mode |-> "days", since_ts |-> 0]
    /\ ids = <<>>
    /\ token = 0
    /\ fetched = 0
    /\ items = <<>>
    /\ result = <<>>
    /\ ipc = "list"
    /\ raised_by = "none"
    /\ seen = <<>>

\* the artifact paths post_brief is called with; "None" is no path
Paths == {"p1", "p2"}

\* delivery before any call
DeliveryIdle ==
    /\ records = {}
    /\ ncalls = 0
    /\ call = [path |-> "None", brief |-> 1, window |-> "None"]
    /\ dpc = "idle"
    /\ posted = 0
    /\ thread_ts = 0
    /\ trace = <<>>
    /\ attempts = 0
    /\ ret = "none"
    /\ delivered = {}
    /\ fully_posted = {}
    /\ failed = {}
    /\ stored = [p \in Paths |-> 0]
    /\ posted_content = [p \in Paths |-> 0]

\* the window calculator before any call
WindowIdle ==
    /\ now = [year |-> 2024, month |-> 1, day |-> 1]
    /\ date_str = <<>>
    /\ wpc = "start"

\* the MIME walker before any call
WalkIdle ==
    /\ payload = [kind |-> "leaf", mimeType |-> "text/plain", data |-> "None",
                  parts |-> <<>>]
    /\ html = "None"
    /\ body_from = "none"
    /\ mpc = "start"

(***************************************************************************)
(* Bounds of the model.                                                    *)
(***************************************************************************)
MaxLen == 5         \* longest text handed to the chunker
MaxCeil == 3        \* largest ceiling handed to the chunker
MaxDocs == 30       \* most documents in the window
MaxMsgs == 3        \* most message ids the store lists
MaxPages == 2       \* most pages the store lists them in
MaxTs == 2          \* internal timestamps are 1..MaxTs
MaxCalls == 3       \* most post_brief calls in a behaviour
MaxYears == 2       \* calendar years the window calculator is run in
MaxNodes == 4       \* most parts (nodes) of a message's body tree

(***************************************************************************)
(* Python str helpers.                                                     *)
(***************************************************************************)
NL == "\n"
SP == " "
STAR == "*"
\* characters str.strip() removes
Whitespace == {SP, NL, "\t"}

\* s[a:b] of Python for 0 <= a, b (0-based, b exclusive), clipped to s
Slice(s, a, b) ==
    LET hi == IF b > Len(s) THEN Len(s) ELSE b
    IN  IF a >= hi THEN <<>> ELSE SubSeq(s, a + 1, hi)

\* str.strip()
Strip(s) ==
    IF \A i \in 1..Len(s) : s[i] \in Whitespace THEN <<>>
    ELSE LET lo == CHOOSE i \in 1..Len(s) :
                       /\ s[i] \notin Whitespace
                       /\ \A j \in 1..(i - 1) : s[j] \in Whitespace
             hi == CHOOSE i \in 1..Len(s) :
                       /\ s[i] \notin Whitespace
                       /\ \A j \in (i + 1)..Len(s) : s[j] \in Whitespace
         IN  SubSeq(s, lo, hi)

\* str.startswith(pre)
StartsWith(s, pre) ==
    Len(s) >= Len(pre) /\ SubSeq(s, 1, Len(pre)) = pre

\* str.split('\n'): the lines of s, one more than the number of newlines
SplitLines(s) ==
    LET nls == {i \in 1..Len(s) : s[i] = NL}
        n   == Cardinality(nls)
        \* cut[k]: position of the k-th newline; cut[0] = 0, cut[n+1] = Len(s)+1
        cut == [k \in 0..(n + 1) |->
                  IF k = 0 THEN 0
                  ELSE IF k = n + 1 THEN Len(s) + 1
                  ELSE CHOOSE p \in nls : Cardinality({q \in nls : q < p}) = k - 1]
    IN  [k \in 1..(n + 1) |-> SubSeq(s, cut[k - 1] + 1, cut[k] - 1)]

\* the characters of s that are not whitespace, in order
NonWs(s) == SelectSeq(s, LAMBDA c : c \notin Whitespace)

\* sub occurs in s as a contiguous block
Contains(s, sub) ==
    \E i \in 1..(Len(s) - Len(sub) + 1) : SubSeq(s, i, i + Len(sub) - 1) = sub

\* sep.join(parts)
RECURSIVE Join(_, _)
Join(parts, sep) ==
    IF parts = <<>> THEN <<>>
    ELSE IF Len(parts) = 1 THEN parts[1]
    ELSE parts[1] \o sep \o Join(Tail(parts), sep)

(***************************************************************************)
(* slack_post.py: the chunker.                                             *)
(***************************************************************************)

\* One iteration of the loop of _split_content (lines 237-248).
\* st = [chunks, current_chunk]
split_content_step(st, line, max) ==
    IF Len(st.current) + Len(line) + 1 > max
    THEN IF st.current # <<>>
         THEN [chunks  |-> Append(st.chunks, Strip(st.current)),
               current |-> line \o <<NL>>]
         ELSE [chunks  |-> Append(st.chunks, Slice(line, 0, max)),
               current |-> Slice(line, max, Len(line)) \o <<NL>>]
    ELSE [chunks |-> st.chunks, current |-> st.current \o line \o <<NL>>]

RECURSIVE split_content_loop(_, _, _, _)
split_content_loop(lines, i, st, max) ==
    IF i > Len(lines) THEN st
    ELSE split_content_loop(lines, i + 1, split_content_step(st, lines[i], max), max)

\* SlackBriefPoster._split_content (lines 228-253)
split_content(text, max) ==
    IF Len(text) <= max THEN <<text>>
    ELSE LET st == split_content_loop(SplitLines(text), 1,
                                      [chunks |-> <<>>, current |-> <<>>], max)
         IN  IF Strip(st.current) # <<>>
             THEN Append(st.chunks, Strip(st.current))
             ELSE st.chunks

\* line.strip().startswith('*') (lines 185, 188)
IsHeaderLine(line) == StartsWith(Strip(line), <<STAR>>)

\* mutant of section_overflow: the overflowing line is not carried over
section_overflow_dropline(st, line) ==
    [sections |-> Append(st.sections, Strip(st.current)),
     current  |-> <<>>]

\* a non-header line that overflows the open section: that section is
\* closed and the line opens the next one (lines 198-200)
section_overflow(st, line) ==
    [sections |-> Append(st.sections, Strip(st.current)),
     current  |-> line \o <<NL>>]

\* One iteration of the loop of _split_at_sections (lines 183-202).
\* st = [sections, current_section]
split_at_sections_step(st, line, max) ==
    IF IsHeaderLine(line) /\ st.current = <<>>
    THEN [sections |-> st.sections, current |-> line \o <<NL>>]
    ELSE IF IsHeaderLine(line)
    THEN [sections |-> IF Strip(st.current) # <<>>
                       THEN Append(st.sections, Strip(st.current))
                       ELSE st.sections,
          current  |-> line \o <<NL>>]
    ELSE LET potential == st.current \o line \o <<NL>>
         IN  IF Len(potential) > max /\ Strip(st.current) # <<>>
             THEN section_overflow(st, line)
             ELSE [sections |-> st.sections, current |-> potential]

RECURSIVE split_at_sections_loop(_, _, _, _)
split_at_sections_loop(lines, i, st, max) ==
    IF i > Len(lines) THEN st
    ELSE split_at_sections_loop(lines, i + 1,
                                split_at_sections_step(st, lines[i], max), max)

\* SlackBriefPoster._split_at_sections (lines 175-212)
split_at_sections(text, max) ==
    LET st   == split_at_sections_loop(SplitLines(text), 1,
                                       [sections |-> <<>>, current |-> <<>>], max)
        secs == IF Strip(st.current) # <<>>
                THEN Append(st.sections, Strip(st.current))
                ELSE st.sections
    IN  IF secs = <<>> THEN split_content(text, max) ELSE secs

(***************************************************************************)
(* weekly_agent.py: the two-stage relevance pipeline of                    *)
(* generate_weekly_brief.  A document is identified by its position in     *)
(* emails (0-based, as in the source).                                     *)
(***************************************************************************)
TwoStageThreshold == 20     \* len(emails) > 20
FallbackHighEnd == 15       \* range(min(15, len(emails)))
FallbackMediumEnd == 25     \* range(15, min(25, len(emails)))
DetailCap == 20             \* high_priority_indexes[:20]
SummaryCap == 10            \* medium_priority_indexes[:10]

Min(a, b) == IF a <= b THEN a ELSE b

\* an element of a list the oracle returned: an integer, or something else
\* (a string, a float, an object)
IntItem(i) == [int |-> TRUE, v |-> i]
OtherItem == [int |-> FALSE, v |-> 0]

\* list(range(a, b)) of Python
Range(a, b) == [k \in 1..(b - a) |-> IntItem(a + k - 1)]

\* The values the oracle's JSON may hold under a key: the key is absent
\* (.get's default []), a list, or a value len() rejects (a number, null).
Missing == [t |-> "missing", items |-> <<>>]
Scalar == [t |-> "scalar", items |-> <<>>]
ListOf(s) == [t |-> "list", items |-> s]

OracleLists(n) ==
    {<<>>, Range(0, n), Range(0, 20), Range(20, n), Range(0, 15),
     Range(15, 25), Range(5, n), <<IntItem(0), IntItem(0)>>,
     <<IntItem(n)>>, <<IntItem(-1)>>, <<IntItem(0 - n - 1)>>, <<OtherItem>>}

OracleValues(n) == {Missing, Scalar} \cup {ListOf(s) : s \in OracleLists(n)}

\* what priority_text can be: text json.loads rejects, or one JSON object
OracleResponses(n) ==
    {[kind |-> "unparsable", high |-> Missing, medium |-> Missing]} \cup
    {[kind |-> "object", high |-> h, medium |-> m] :
        h \in OracleValues(n), m \in OracleValues(n)}

\* the try block of lines 193-200 raises: json.loads fails, or len() of a
\* value that has no length fails inside the print
ParseRaises(resp) ==
    \/ resp.kind = "unparsable"
    \/ resp.high.t = "scalar"
    \/ resp.medium.t = "scalar"

\* mutant of fallback_high: the detail cap taken for the fallback size
fallback_high_detailcap(n) == Range(0, Min(DetailCap, n))

\* line 203
fallback_high(n) == Range(0, Min(FallbackHighEnd, n))

\* line 204
fallback_medium(n) == Range(FallbackHighEnd, Min(FallbackMediumEnd, n))

\* emails[i] of Python succeeds: an integer in -n .. n-1
ValidIndex(it, n) == it.int /\ 0 - n <= it.v /\ it.v < n

\* the document emails[i] selects (negative i counts from the end)
Pick(it, n) == IF it.v >= 0 THEN it.v ELSE n + it.v

\* mutant of detail_slice: no cap
detail_slice_uncapped(idx) == idx

\* line 208: high_priority_indexes[:20]
detail_slice(idx) == Slice(idx, 0, DetailCap)

\* line 209: medium_priority_indexes[:10]
summary_slice(idx) == Slice(idx, 0, SummaryCap)

\* the rank pipeline before any run
RankIdle ==
    /\ nDocs = 0
    /\ priority_text = [kind |-> "none", high |-> Missing, medium |-> Missing]
    /\ high_priority_indexes = <<>>
    /\ medium_priority_indexes = <<>>
    /\ email_data = <<>>
    /\ summary_data = <<>>
    /\ rpc = "start"

InitRank ==
    /\ WindowIdle
    /\ WalkIdle
    /\ nDocs \in 0..MaxDocs
    /\ priority_text = [kind |-> "none", high |-> Missing, medium |-> Missing]
    /\ high_priority_indexes = <<>>
    /\ medium_priority_indexes = <<>>
    /\ email_data = <<>>
    /\ summary_data = <<>>
    /\ rpc = "start"
    /\ ChunkIdle
    /\ IngestIdle
    /\ DeliveryIdle

\* lines 148-204: stage 1, the oracle is asked and its answer parsed
Stage1Rank ==
    /\ rpc = "start"
    /\ nDocs > TwoStageThreshold
    /\ \E resp \in OracleResponses(nDocs) :
        /\ priority_text' = resp
        /\ IF ParseRaises(resp)
           THEN /\ high_priority_indexes' = fallback_high(nDocs)
                /\ medium_priority_indexes' = fallback_medium(nDocs)
           ELSE /\ high_priority_indexes' = resp.high.items
                /\ medium_priority_indexes' = resp.medium.items
    /\ rpc' = "ranked"
    /\ UNCHANGED <<nDocs, email_data, summary_data>>
    /\ UNCHANGED <<chunkVars, ingestVars, deliveryVars, windowVars, walkVars>>

\* lines 206-232: stage 2, the documents of both tiers are selected
Stage2Select ==
    /\ rpc = "ranked"
    /\ LET hi == detail_slice(high_priority_indexes)
           me == summary_slice(medium_priority_indexes)
       IN  IF /\ \A k \in 1..Len(hi) : ValidIndex(hi[k], nDocs)
              /\ \A k \in 1..Len(me) : ValidIndex(me[k], nDocs)
           THEN /\ email_data' = [k \in 1..Len(hi) |-> Pick(hi[k], nDocs)]
                /\ summary_data' = [k \in 1..Len(me) |-> Pick(me[k], nDocs)]
                /\ rpc' = "done"
           ELSE \* IndexError or TypeError, not caught in generate_weekly_brief
                /\ rpc' = "raised"
                /\ UNCHANGED <<email_data, summary_data>>
    /\ UNCHANGED <<nDocs, priority_text, high_priority_indexes,
                   medium_priority_indexes>>
    /\ UNCHANGED <<chunkVars, ingestVars, deliveryVars, windowVars, walkVars>>

\* lines 234-246: at most 20 documents, every one is treated as detailed
SimpleAll ==
    /\ rpc = "start"
    /\ nDocs <= TwoStageThreshold
    /\ email_data' = [k \in 1..nDocs |-> k - 1]
    /\ summary_data' = <<>>
    /\ rpc' = "done"
    /\ UNCHANGED <<nDocs, priority_text, high_priority_indexes,
                   medium_priority_indexes>>
    /\ UNCHANGED <<chunkVars, ingestVars, deliveryVars, windowVars, walkVars>>

NextRank == Stage1Rank \/ Stage2Select \/ SimpleAll

SpecRank == InitRank /\ [][NextRank]_vars

\* documents handed to neither treatment
Dropped ==
    (0..(nDocs - 1)) \ ({email_data[k] : k \in 1..Len(email_data)} \cup
                        {summary_data[k] : k \in 1..Len(summary_data)})

TwoStage == priority_text.kind # "none"

\* C9: when the oracle's text is unparsable, the high tier is the first
\* min(15, N) indices in order and the medium tier the next min(10, N-15);
\* for N = 30 these are 0..14 and 15..24.
C9_FallbackTiers ==
    (rpc # "start" /\ priority_text.kind = "unparsable") =>
        /\ high_priority_indexes =
              [k \in 1..Min(15, nDocs) |-> IntItem(k - 1)]
        /\ medium_priority_indexes =
              [k \in 1..Min(10, nDocs - 15) |-> IntItem(14 + k)]
        /\ nDocs = 30 =>
              /\ high_priority_indexes =
                    <<IntItem(0), IntItem(1), IntItem(2), IntItem(3), IntItem(4),
                      IntItem(5), IntItem(6), IntItem(7), IntItem(8), IntItem(9),
                      IntItem(10), IntItem(11), IntItem(12), IntItem(13),
                      IntItem(14)>>
              /\ medium_priority_indexes =
                    <<IntItem(15), IntItem(16), IntItem(17), IntItem(18),
                      IntItem(19), IntItem(20), IntItem(21), IntItem(22),
                      IntItem(23), IntItem(24)>>

\* C9 witness: 30 documents, unparsable oracle text, fallback tiers selected
C9_Witness ==
    /\ rpc = "done"
    /\ priority_text.kind = "unparsable"
    /\ nDocs = 30
    /\ Len(email_data) = 15

\* C10 (as claimed): with 25 documents the two-stage mode runs and 20
\* documents are detailed, 5 brief and none dropped.
C10_TwentyFiveAllPassed ==
    (rpc = "done" /\ nDocs = 25) =>
        /\ TwoStage
        /\ Len(email_data) = 20
        /\ Len(summary_data) = 5
        /\ Dropped = {}

\* C10 (amended): with 25 documents the two-stage mode runs; at most 20
\* documents are detailed and at most 10 brief; on the fallback tiers 15 are
\* detailed, 10 brief and none dropped; 20 detailed, 5 brief and none dropped
\* is what the ranking 0..19 / 20..24 gives.
C10_TwentyFiveCapped ==
    (rpc = "done" /\ nDocs = 25) =>
        /\ TwoStage
        /\ Len(email_data) <= 20
        /\ Len(summary_data) <= 10
        /\ ParseRaises(priority_text) =>
              /\ Len(email_data) = 15
              /\ Len(summary_data) = 10
              /\ Dropped = {}
        /\ (/\ priority_text.high = ListOf(Range(0, 20))
            /\ priority_text.medium = ListOf(Range(20, 25))) =>
              /\ Len(email_data) = 20
              /\ Len(summary_data) = 5
              /\ Dropped = {}

\* C10 witness: 25 documents, the oracle ranked all 25 as high priority, and
\* stage 2 kept the first 20 of them
C10_Witness ==
    /\ rpc = "done"
    /\ nDocs = 25
    /\ Len(high_priority_indexes) = 25
    /\ Len(email_data) = 20

\* it is a position of the document list: an integer with 0 <= it < n
IsPosition(it, n) == it.int /\ 0 <= it.v /\ it.v < n

\* the oracle's answer is unusable: it does not parse, a tier is not a list,
\* or a tier holds something that is not a position of the document list
Unusable(resp, n) ==
    \/ ParseRaises(resp)
    \/ \E k \in 1..Len(resp.high.items) : ~IsPosition(resp.high.items[k], n)
    \/ \E k \in 1..Len(resp.medium.items) : ~IsPosition(resp.medium.items[k], n)

\* C14 (as claimed): an unusable answer of the oracle never aborts the run,
\* and the documents selected after it are those of the positional fallback
\* tiers, not those of the answer's indices.
C14_InvalidIndicesFallBack ==
    /\ rpc # "raised"
    /\ (rpc = "done" /\ TwoStage /\ Unusable(priority_text, nDocs)) =>
           /\ email_data = [k \in 1..Min(15, nDocs) |-> k - 1]
           /\ summary_data = [k \in 1..Min(10, nDocs - 15) |-> 14 + k]

\* the sequence holds no value at two positions
NoRepeat(seq) ==
    \A i \in 1..Len(seq) : \A j \in 1..Len(seq) : seq[i] = seq[j] => i = j

\* C19 (as claimed): after stage 2, whatever the oracle answered, no document
\* is selected more than once: the detailed list holds no document twice, the
\* brief list holds no document twice, and no document is in both lists.
C19_NoDocumentSelectedTwice ==
    rpc = "done" =>
        /\ NoRepeat(email_data)
        /\ NoRepeat(summary_data)
        /\ {email_data[k] : k \in 1..Len(email_data)} \cap
              {summary_data[k] : k \in 1..Len(summary_data)} = {}

(***************************************************************************)
(* gmail_ingest.py: fetch_newsletters and fetch_context.                   *)
(* The message store is external: a listing call answers with a page of    *)
(* ids and maybe a cursor, a get call with a message, and either may fail. *)
(***************************************************************************)
None == "None"

\* What the code reads of a fetched message: internalDate, the Message-Id
\* header, and the first URL of the converted body (_first_url, None when
\* the body has none).  The Subject header is always "t".
Messages ==
    [ts : 1..MaxTs, msgid : {None, "m"}, url : {None, "w"}]

Windows(fn) ==
    {[mode |-> "days", since_ts |-> 0]} \cup
    {[mode |-> "since_ts", since_ts |-> c] : c \in 0..MaxTs} \cup
    (IF fn = "fetch_context" THEN {[mode |-> "all", since_ts |-> 0]} ELSE {})

\* lines 152-170: the item fetch_newsletters builds of message m.  gmail_link
\* is the search link of the Message-Id, here the Message-Id itself.
newsletter_item(m) ==
    [title       |-> "t",
     gmail_link  |-> m.msgid,
     web_link    |-> m.url,
     internal_ts |-> m.ts]

\* lines 227-238: the doc fetch_context builds of message m with Gmail id mid
context_doc(m, mid) ==
    [msgid |-> m.msgid,
     mid   |-> IF m.msgid = None THEN mid ELSE 0,
     ts_ms |-> m.ts]

\* mutant of since_excluded: a message at the cutoff itself gets through
since_excluded_below(w, ts) == w.mode = "since_ts" /\ ts < w.since_ts

\* lines 149-150 / 224-225: the message is left out (continue)
since_excluded(w, ts) == w.mode = "since_ts" /\ ts <= w.since_ts

TsOf(d) == IF "internal_ts" \in DOMAIN d THEN d.internal_ts ELSE d.ts_ms

\* line 175: it["web_link"] or it["gmail_link"] or it["title"]
dedup_key(it) ==
    IF it.web_link # None THEN it.web_link
    ELSE IF it.gmail_link # None THEN it.gmail_link
    ELSE it.title

\* mutant of insert_desc: reverse=True left out, oldest first
insert_asc(sorted, x) ==
    LET k == Cardinality({i \in 1..Len(sorted) : TsOf(sorted[i]) <= TsOf(x)})
    IN  SubSeq(sorted, 1, k) \o <<x>> \o SubSeq(sorted, k + 1, Len(sorted))

\* x placed into a list sorted newest first, behind every entry that is at
\* least as new (the sort is stable)
insert_desc(sorted, x) ==
    LET k == Cardinality({i \in 1..Len(sorted) : TsOf(sorted[i]) >= TsOf(x)})
    IN  SubSeq(sorted, 1, k) \o <<x>> \o SubSeq(sorted, k + 1, Len(sorted))

RECURSIVE sorted_loop(_, _, _)
sorted_loop(seq, i, acc) ==
    IF i > Len(seq) THEN acc
    ELSE sorted_loop(seq, i + 1, insert_desc(acc, seq[i]))

\* sorted(seq, key=timestamp, reverse=True) (lines 174, 240)
sorted_desc(seq) == sorted_loop(seq, 1, <<>>)

\* mutant of dedup_insert: "if key not in dedup" left out, the last item of
\* a key stays (in the place of the first)
dedup_insert_overwrite(dedup, it) ==
    IF \E i \in 1..Len(dedup) : dedup_key(dedup[i]) = dedup_key(it)
    THEN [i \in 1..Len(dedup) |->
             IF dedup_key(dedup[i]) = dedup_key(it) THEN it ELSE dedup[i]]
    ELSE Append(dedup, it)

\* lines 175-177: the first item of a key stays
dedup_insert(dedup, it) ==
    IF \E i \in 1..Len(dedup) : dedup_key(dedup[i]) = dedup_key(it)
    THEN dedup
    ELSE Append(dedup, it)

RECURSIVE dedup_loop(_, _, _)
dedup_loop(seq, i, dedup) ==
    IF i > Len(seq) THEN dedup
    ELSE dedup_loop(seq, i + 1, dedup_insert(dedup, seq[i]))

\* lines 172-178: list(dedup.values())
dedup_newest_first(its) == dedup_loop(sorted_desc(its), 1, <<>>)

InitIngest ==
    /\ WindowIdle
    /\ WalkIdle
    /\ ingest_fn \in {"fetch_newsletters", "fetch_context"}
    /\ window \in Windows(ingest_fn)
    /\ ids = <<>>
    /\ token = 0
    /\ fetched = 0
    /\ items = <<>>
    /\ result = <<>>
    /\ ipc = "list"
    /\ raised_by = "none"
    /\ seen = <<>>
    /\ ChunkIdle
    /\ RankIdle
    /\ DeliveryIdle

\* mutant of collect_ids: the page replaces what was collected
collect_ids_last_page(acc, page) == page

\* lines 138 / 215: ids += [m["id"] for m in resp.get("messages", [])]
collect_ids(acc, page) == acc \o page

\* lines 134-141 / 211-218: one listing call that answers with k further ids
\* and, when more is true, a cursor
ListPage ==
    /\ ipc = "list"
    /\ \E k \in 0..(MaxMsgs - Len(ids)), more \in BOOLEAN :
        LET page == [j \in 1..k |-> Len(ids) + j]
        IN  /\ more => token + 1 < MaxPages
            /\ ids' = collect_ids(ids, page)
            /\ token' = IF more THEN token + 1 ELSE 0
            /\ ipc' = IF more THEN "list" ELSE "fetch"
    /\ UNCHANGED <<ingest_fn, window, fetched, items, result, raised_by, seen>>
    /\ UNCHANGED <<chunkVars, rankVars, deliveryVars, windowVars, walkVars>>

\* the listing call fails: nothing catches it
ListFails ==
    /\ ipc = "list"
    /\ ipc' = "raised"
    /\ raised_by' = "list"
    /\ UNCHANGED <<ingest_fn, window, ids, token, fetched, items, result, seen>>
    /\ UNCHANGED <<chunkVars, rankVars, deliveryVars, windowVars, walkVars>>

\* lines 145-170 / 221-238: one iteration of the fetch loop, the get call
\* answering with message m
FetchMessage ==
    /\ ipc = "fetch"
    /\ fetched < Len(ids)
    /\ \E m \in Messages :
        /\ items' = IF since_excluded(window, m.ts)
                    THEN items
                    ELSE IF ingest_fn = "fetch_newsletters"
                    THEN Append(items, newsletter_item(m))
                    ELSE Append(items, context_doc(m, ids[fetched + 1]))
        /\ seen' = Append(seen, m)
    /\ fetched' = fetched + 1
    /\ UNCHANGED <<ingest_fn, window, ids, token, result, ipc, raised_by>>
    /\ UNCHANGED <<chunkVars, rankVars, deliveryVars, windowVars, walkVars>>

\* lines 146-147 / 222-223: the get call (or reading internalDate of what it
\* returned) fails; the loop has no try, so the failure leaves the function
FetchFails ==
    /\ ipc = "fetch"
    /\ fetched < Len(ids)
    /\ ipc' = "raised"
    /\ raised_by' = "get"
    /\ UNCHANGED <<ingest_fn, window, ids, token, fetched, items, result, seen>>
    /\ UNCHANGED <<chunkVars, rankVars, deliveryVars, windowVars, walkVars>>

\* lines 172-178 / 240-241: the loop is over, the list is returned
IngestReturn ==
    /\ ipc = "fetch"
    /\ fetched = Len(ids)
    /\ result' = IF ingest_fn = "fetch_newsletters"
                 THEN dedup_newest_first(items)
                 ELSE sorted_desc(items)
    /\ ipc' = "done"
    /\ UNCHANGED <<ingest_fn, window, ids, token, fetched, items, raised_by, seen>>
    /\ UNCHANGED <<chunkVars, rankVars, deliveryVars, windowVars, walkVars>>

NextIngest ==
    ListPage \/ ListFails \/ FetchMessage \/ FetchFails \/ IngestReturn

SpecIngest == InitIngest /\ [][NextIngest]_vars

\* the items that share the dedup key k
Group(k) == {i \in 1..Len(items) : dedup_key(items[i]) = k}

Newsletters == ingest_fn = "fetch_newsletters"

\* C4: the output of fetch_newsletters has exactly one entry per dedup key
\* of the fetched documents, and that entry is a fetched document of the
\* key with the maximum internal_ts of its group.
C4_DedupNewestPerKey ==
    (ipc = "done" /\ Newsletters) =>
        /\ \A i \in 1..Len(items) :
               Cardinality({j \in 1..Len(result) :
                   dedup_key(result[j]) = dedup_key(items[i])}) = 1
        /\ \A j \in 1..Len(result) :
               /\ \E i \in Group(dedup_key(result[j])) : items[i] = result[j]
               /\ \A i \in Group(dedup_key(result[j])) :
                      items[i].internal_ts <= result[j].internal_ts

\* C4 witness: two fetched documents share a key, the later-fetched one is
\* the newer, and the list was returned
C4_Witness ==
    /\ ipc = "done" /\ Newsletters
    /\ \E i, j \in 1..Len(items) :
           /\ i < j
           /\ dedup_key(items[i]) = dedup_key(items[j])
           /\ items[i].internal_ts < items[j].internal_ts
    /\ Len(result) >= 2

\* C5 (as claimed): the output of fetch_newsletters is strictly descending
\* by internal_ts.
C5_StrictlyDescending ==
    (ipc = "done" /\ Newsletters) =>
        \A j \in 1..(Len(result) - 1) :
            result[j].internal_ts > result[j + 1].internal_ts

\* C5 (amended): the output is descending by internal_ts with ties allowed:
\* an entry is never older than the one after it, and two consecutive
\* entries with the same internal_ts are documents of different dedup keys.
C5_Descending ==
    (ipc = "done" /\ Newsletters) =>
        \A j \in 1..(Len(result) - 1) :
            /\ result[j].internal_ts >= result[j + 1].internal_ts
            /\ result[j].internal_ts = result[j + 1].internal_ts =>
                   dedup_key(result[j]) # dedup_key(result[j + 1])

\* C5 witness: the returned list holds an older document fetched before a
\* newer one, and two documents of the same internal_ts
C5_Witness ==
    /\ ipc = "done" /\ Newsletters
    /\ Len(items) >= 2 /\ items[1].internal_ts < items[2].internal_ts
    /\ \E j \in 1..(Len(result) - 1) :
           result[j].internal_ts = result[j + 1].internal_ts

\* C8 (as claimed): a failure of one message's get is skipped and the rest
\* of the batch is returned; only a failure of the listing call reaches the
\* caller.
C8_OnlyListingFailurePropagates ==
    ipc = "raised" => raised_by = "list"

\* the timestamps of a list of messages, items or docs, in order
TsList(seq) == [i \in 1..Len(seq) |-> IF "ts" \in DOMAIN seq[i] THEN seq[i].ts
                                      ELSE TsOf(seq[i])]

SinceWindow == window.mode = "since_ts"

\* C11: under a "since instant" window with cutoff C no returned document
\* has a timestamp <= C, and the filter keeps every fetched message whose
\* timestamp is > C: the items built are those messages, in fetch order.
\* fetch_context returns them all; fetch_newsletters returns one of each
\* dedup key.
C11_SinceCutoffStrict ==
    (SinceWindow /\ ipc \in {"fetch", "done"}) =>
        /\ TsList(items) =
               TsList(SelectSeq(seen, LAMBDA m : m.ts > window.since_ts))
        /\ \A j \in 1..Len(result) : TsOf(result[j]) > window.since_ts
        /\ (ipc = "done" /\ ~Newsletters) => Len(result) = Len(items)
        /\ (ipc = "done" /\ Newsletters) =>
               \A i \in 1..Len(items) : \E j \in 1..Len(result) :
                   dedup_key(result[j]) = dedup_key(items[i])

\* C11 witness: a since window whose cutoff is a timestamp in use; a message
\* at the cutoff, one below or at it and one above it were fetched, and the
\* list was returned
C11_Witness ==
    /\ SinceWindow /\ ipc = "done"
    /\ window.since_ts >= 1
    /\ \E i \in 1..Len(seen) : seen[i].ts = window.since_ts
    /\ \E i \in 1..Len(seen) : seen[i].ts > window.since_ts
    /\ Len(result) >= 1

\* seq a is the beginning of seq b
IsPrefix(a, b) == Len(a) <= Len(b) /\ SubSeq(b, 1, Len(a)) = a

\* what a step may do to the listing loop: while listing, a failed call
\* raises, and an answered one appends its page and goes on exactly when
\* the page carried a cursor; once listing is over the ids stay
ListingStep ==
    /\ ipc = "list" =>
           \/ (ipc' = "raised" /\ raised_by' = "list" /\ ids' = ids)
           \/ /\ IsPrefix(ids, ids')
              /\ (token' > 0) => (ipc' = "list" /\ token' = token + 1)
              /\ (token' = 0) => (ipc' = "fetch")
    /\ ipc # "list" => (ids' = ids /\ ipc' # "list")

\* C16: each listing call appends the ids of its page to the ids collected
\* so far; the loop asks for another page exactly when the page carried a
\* cursor, however many pages there have been, and goes on to the fetch
\* loop at the first page without one; after that the ids no longer change.
C16_PaginationUntilNoCursor ==
    /\ [](ipc \in {"fetch", "done"} => token = 0)
    /\ [][ListingStep]_vars

\* C16 witness: a page with ids and a cursor has been returned and the loop
\* is about to ask for the page after it, the last the model allows
C16_Witness ==
    /\ ipc = "list"
    /\ token = MaxPages - 1
    /\ token >= 1
    /\ ids # <<>>

(***************************************************************************)
(* slack_post.py: the texts post_brief builds.  A character outside ASCII  *)
(* is written by its code point ("U2022" is the bullet, and "U0060" the    *)
(* backquote); it counts as one character, as in the source.               *)
(***************************************************************************)
\* str.replace('**', '*'): left to right, occurrences do not overlap
RECURSIVE ReplaceBold(_)
ReplaceBold(s) ==
    IF Len(s) < 2 THEN s
    ELSE IF s[1] = STAR /\ s[2] = STAR
    THEN <<STAR>> \o ReplaceBold(SubSeq(s, 3, Len(s)))
    ELSE <<s[1]>> \o ReplaceBold(Tail(s))

\* s[n:] of Python
From(s, n) == Slice(s, n, Len(s))

\* line 139
RULE ==
    <<"\n", "U2501", "U2501", "U2501", "U2501", "U2501", "U2501", "U2501",
      "U2501", "U2501", "U2501", "U2501", "U2501", "U2501", "U2501", "U2501",
      "U2501", "U2501", "U2501", "U2501", "U2501", "\n">>

\* lines 124-149: what _format_for_slack makes of one line
format_line(line) ==
    IF StartsWith(line, <<"#", SP>>)
    THEN <<STAR>> \o Strip(From(line, 2)) \o <<STAR>>
    ELSE IF StartsWith(line, <<"#", "#", SP>>)
    THEN <<NL, STAR>> \o Strip(From(line, 3)) \o <<STAR>>
    ELSE IF StartsWith(line, <<"#", "#", "#", SP>>)
    THEN <<NL, "_">> \o Strip(From(line, 4)) \o <<"_">>
    ELSE IF StartsWith(line, <<"-", SP>>)
    THEN <<"U2022", SP>> \o Strip(From(line, 2))
    ELSE IF Strip(line) = <<"-", "-", "-">>
    THEN RULE
    ELSE IF Contains(line, <<STAR, STAR>>)
    THEN ReplaceBold(line)
    ELSE IF Strip(line) # <<>>
    THEN line
    ELSE <<>>

\* SlackBriefPoster._format_for_slack (lines 117-151)
format_for_slack(markdown) ==
    LET lines == SplitLines(markdown)
    IN  Join([i \in 1..Len(lines) |-> format_line(lines[i])], <<NL>>)

SOURCES_HEADING ==
    <<"*", "*", "S", "o", "u", "r", "c", "e", "s">>

\* line 162: the line opens the sources section
IsSourcesStart(line) ==
    \/ Strip(line) = <<"-", "-", "-">>
    \/ StartsWith(Strip(line), SOURCES_HEADING)

\* SlackBriefPoster._split_brief_and_sources (lines 153-173):
\* <<main_content, sources_content>>
split_brief_and_sources(text) ==
    LET lines  == SplitLines(text)
        starts == {i \in 1..Len(lines) : IsSourcesStart(lines[i])}
    IN  IF starts = {} THEN <<text, <<>>>>
        ELSE LET first == CHOOSE i \in starts : \A j \in starts : i <= j
             IN  <<Strip(Join(SubSeq(lines, 1, first - 1), <<NL>>)),
                   Strip(Join(SubSeq(lines, first, Len(lines)), <<NL>>))>>

(***************************************************************************)
(* slack_post.py: SlackBriefPoster.post_brief.                             *)
(* The delivery target is external: each chat_postMessage call is one      *)
(* step, accepted or rejected (SlackApiError).  One call runs at a time.   *)
(***************************************************************************)
SplitThreshold == 3900      \* len(full_message) > 3900
SectionCeiling == 3800      \* max_length of _split_at_sections
SlackLimit == 4000          \* "Slack's 4000 char limit" (comment, line 58)

Rep(c, n) == [i \in 1..n |-> c]

\* line 45
PULSE_PREFIX ==
    <<"U1F4CA", " ", "*", "A", "I", " ", "P", "u", "l", "s", "e", " ", "B",
      "r", "i", "e", "f", "*", " ", "U2014", " ", "C", "o", "v", "e", "r",
      "a", "g", "e", ":", " ">>

\* line 50
WEB_LINK_PREFIX ==
    <<"\n", "U1F517", " ", "<", "h", "t", "t", "p", ":", "/", "/", "l", "o",
      "c", "a", "l", "h", "o", "s", "t", ":", "5", "0", "0", "1", "/", "b",
      "r", "i", "e", "f", "/">>

WEB_LINK_SUFFIX ==
    <<"|", "R", "e", "a", "d", " ", "f", "u", "l", "l", " ", "b", "r", "i",
      "e", "f", " ", "o", "n", " ", "w", "e", "b", ">">>

\* line 53
BUILDER_PREFIX ==
    <<"U1F916", " ", "*", "A", "I", " ", "B", "u", "i", "l", "d", "e", "r",
      " ", "B", "r", "i", "e", "f", "*", " ", "U2014", " ">>

\* line 56
SAVED_PREFIX ==
    <<"\n", "U1F4C4", " ", "_", "S", "a", "v", "e", "d", " ", "t", "o", ":",
      "_", " ", "U0060">>

\* line 95
SOURCES_PREFIX ==
    <<"U1F4DA", " ", "*", "S", "o", "u", "r", "c", "e", "s", "*", "\n">>

WEEKLY_MD ==
    <<"-", "w", "e", "e", "k", "l", "y", ".", "m", "d">>

\* brief_file_path.split('/')[-1].replace('-weekly.md', '') of the path
\* main() builds (weekly_agent.py line 360)
BriefDate(p) ==
    IF p = "p1"
    THEN <<"2", "0", "2", "6", "-", "1", "1", "-", "0", "4">>
    ELSE <<"2", "0", "2", "6", "-", "1", "1", "-", "0", "5">>

\* brief_file_path.split('/')[-1]
FileName(p) == BriefDate(p) \o WEEKLY_MD

\* the date_window values: "None", or the display label "w" of a window
WindowLabel ==
    <<"O", "c", "t", " ", "2", "9", "U2013", "N", "o", "v", " ", "0", "5">>

\* datetime.utcnow().strftime("%B %d, %Y at %H:%M UTC")
UtcNow ==
    <<"N", "o", "v", "e", "m", "b", "e", "r", " ", "0", "4", ",", " ", "2",
      "0", "2", "6", " ", "a", "t", " ", "2", "3", ":", "0", "0", " ", "U",
      "T", "C">>

\* lines 43-56
header_of(p, w) ==
    IF w # None
    THEN PULSE_PREFIX \o WindowLabel \o
         (IF p # None THEN WEB_LINK_PREFIX \o BriefDate(p) \o WEB_LINK_SUFFIX
          ELSE <<>>)
    ELSE BUILDER_PREFIX \o UtcNow \o
         (IF p # None THEN SAVED_PREFIX \o FileName(p) \o <<"U0060">> ELSE <<>>)

MD_TITLE ==
    <<"#", " ", "W", "e", "e", "k", "l", "y", " ", "A", "I", " ", "B", "r",
      "i", "e", "f", "\n", "\n">>

MD_SECTION_A ==
    <<"#", "#", " ", "W", "h", "a", "t", " ", "t", "h", "i", "s", " ", "m",
      "e", "a", "n", "s", " ", "f", "o", "r", " ", "y", "o", "u", "r", " ",
      "t", "e", "a", "m", "\n", "\n", "*", "*", "I", "t", "e", "m", " ", "o",
      "n", "e", "*", "*", " ", "(", "E", "v", "e", "r", "y", ",", " ", "N",
      "o", "v", " ", "0", "4", ")", "\n">>

MD_SECTION_B ==
    <<"\n", "\n", "#", "#", " ", "W", "o", "r", "t", "h", " ", "k", "e", "e",
      "p", "i", "n", "g", " ", "a", "n", " ", "e", "y", "e", " ", "o", "n",
      "\n", "\n">>

MD_SECTION_C ==
    <<"\n", "\n", "#", "#", " ", "T", "h", "i", "n", "g", "s", " ", "t", "o",
      " ", "t", "r", "y", " ", "t", "h", "i", "s", " ", "w", "e", "e", "k",
      "\n", "\n", "-", " ">>

MD_SOURCES ==
    <<"\n", "\n", "-", "-", "-", "\n", "*", "*", "S", "o", "u", "r", "c",
      "e", "s", ":", "*", "*", " ", "E", "v", "e", "r", "y", ",", " ", "T",
      "L", "D", "R", " ", "A", "I", "\n">>

\* a horizontal rule between two sections of the brief
MD_RULE ==
    <<"\n", "\n", "-", "-", "-">>

\* The briefs post_brief is called with:
\*   1  short, no sources section
\*   2  short, with a sources section
\*   3  long, three sections and a sources section
\*   4  long, no header line, no sources section
\*   5  long, one line longer than the ceiling, with a sources section
\*   6  short, a rule between two sections, with a sources section
Briefs ==
    << MD_TITLE \o Rep("a", 40),
       MD_TITLE \o Rep("a", 40) \o MD_SOURCES,
       MD_TITLE \o MD_SECTION_A \o Rep("a", 1800) \o MD_SECTION_B \o
           Rep("b", 1800) \o MD_SECTION_C \o Rep("c", 1800) \o MD_SOURCES,
       Rep("a", 1500) \o <<NL>> \o Rep("b", 1500) \o <<NL>> \o
           Rep("c", 1500) \o <<NL>> \o Rep("d", 1500),
       MD_TITLE \o Rep("a", 4500) \o MD_SOURCES,
       MD_TITLE \o Rep("a", 40) \o MD_RULE \o MD_SECTION_B \o Rep("b", 40) \o
           MD_SOURCES >>

\* lines 37-63: what post_brief works out before its first post
prepare(brief_content, p, w) ==
    LET parts     == split_brief_and_sources(brief_content)
        formatted == format_for_slack(parts[1])
        header    == header_of(p, w)
        full      == header \o <<NL, NL>> \o formatted
    IN  [header   |-> header,
         sections |-> IF Len(full) > SplitThreshold
                      THEN split_at_sections(formatted, SectionCeiling)
                      ELSE <<formatted>>,
         sources  |-> parts[2]]

\* the calls the model makes: <<brief, path, date_window>>
CallKeys == (1..Len(Briefs)) \X (Paths \cup {None}) \X {None, "w"}

\* prepare for every call of S, each value worked out when the table is built
RECURSIVE PreparedOver(_)
PreparedOver(S) ==
    IF S = {} THEN <<>>
    ELSE LET k == CHOOSE x \in S : TRUE
         IN  (k :> prepare(Briefs[k[1]], k[2], k[3])) @@ PreparedOver(S \ {k})

Prepared == PreparedOver(CallKeys)

Prep(c) == Prepared[<<c.brief, c.path, c.window>>]

\* the text handed to chat_postMessage (lines 68, 77, 85, 95)
RootText(c) == Prep(c).header \o <<NL, NL>> \o Prep(c).sections[1]
ReplyText(c, k) == Prep(c).sections[k]
SourcesText(c) == SOURCES_PREFIX \o format_for_slack(Prep(c).sources)

\* mutant of already_posted: the record is never looked at
already_posted_unchecked(p) == FALSE

\* SlackBriefPoster._already_posted (lines 214-219), with the guard
\* "brief_file_path and" of line 33
already_posted(p) == p # None /\ p \in records

\* SlackBriefPoster._mark_as_posted (lines 221-226), with the guard of
\* line 101
mark_as_posted(p) == IF p # None THEN records \cup {p} ELSE records

\* mutant of records_on_reject: the record is written on the way out
records_on_reject_marked(p) == mark_as_posted(p)

\* lines 109-115: the except block prints a hint and re-raises
records_on_reject(p) == records

\* mutant of pc_after_replies: the sources reply is left out
pc_after_replies_no_sources(c) == "mark"

\* lines 90-102: after the last section, the sources reply if there are
\* sources, then the record
pc_after_replies(c) == IF Prep(c).sources # <<>> THEN "sources" ELSE "mark"

\* mutant of pc_after_section: the sources reply is posted right after the
\* root, ahead of the chunk replies
pc_after_section_sources_first(c, k) ==
    IF k = 1 /\ Prep(c).sources # <<>> THEN "sources"
    ELSE IF k < Len(Prep(c).sections) THEN "replies"
    ELSE "mark"

\* lines 71-88: after a section is posted, the next section if there is one
pc_after_section(c, k) ==
    IF k < Len(Prep(c).sections) THEN "replies" ELSE pc_after_replies(c)

\* the posts of a whole sequence of call c whose root got thread id ts
FullSequence(c, ts) ==
    <<[kind |-> "root", idx |-> 1, thread |-> 0]>> \o
    [k \in 1..(Len(Prep(c).sections) - 1) |->
        [kind |-> "reply", idx |-> k + 1, thread |-> ts]] \o
    (IF Prep(c).sources # <<>>
     THEN <<[kind |-> "sources", idx |-> 0, thread |-> ts]>>
     ELSE <<>>)

\* the call is the one main() makes (weekly_agent.py line 376): a path and
\* the window's display label
FromMain(p, w) == p # None /\ w # None

\* weekly_agent.py line 362: main() writes the brief at the date-named path
\* before it calls post_brief; a caller other than main() writes nothing
write_text(p, b, w) ==
    IF FromMain(p, w) THEN [stored EXCEPT ![p] = b] ELSE stored

InitDelivery ==
    /\ WindowIdle
    /\ WalkIdle
    /\ DeliveryIdle
    /\ ChunkIdle
    /\ RankIdle
    /\ IngestIdle

\* lines 31-35: a call that finds the record returns None at once
PostBriefSkip ==
    /\ dpc = "idle"
    /\ ncalls < MaxCalls
    /\ \E p \in Paths \cup {None}, b \in 1..Len(Briefs), w \in {None, "w"} :
        /\ stored' = write_text(p, b, w)
        /\ already_posted(p)
        /\ call' = [path |-> p, brief |-> b, window |-> w]
    /\ ncalls' = ncalls + 1
    /\ ret' = "skipped"
    /\ posted' = 0
    /\ thread_ts' = 0
    /\ trace' = <<>>
    /\ attempts' = 0
    /\ UNCHANGED <<records, dpc, delivered, fully_posted, failed,
                   posted_content>>
    /\ UNCHANGED <<chunkVars, rankVars, ingestVars, windowVars, walkVars>>

\* lines 37-63: a call that finds no record gets ready to post
PostBriefStart ==
    /\ dpc = "idle"
    /\ ncalls < MaxCalls
    /\ \E p \in Paths \cup {None}, b \in 1..Len(Briefs), w \in {None, "w"} :
        /\ stored' = write_text(p, b, w)
        /\ ~already_posted(p)
        /\ call' = [path |-> p, brief |-> b, window |-> w]
    /\ ncalls' = ncalls + 1
    /\ ret' = "running"
    /\ dpc' = "root"
    /\ posted' = 0
    /\ thread_ts' = 0
    /\ trace' = <<>>
    /\ attempts' = 0
    /\ UNCHANGED <<records, delivered, fully_posted, failed, posted_content>>
    /\ UNCHANGED <<chunkVars, rankVars, ingestVars, windowVars, walkVars>>

\* history: the path's whole sequence has been accepted by the target
NoteSequence(tr, ts) ==
    IF call.path # None /\ tr = FullSequence(call, ts)
    THEN fully_posted \cup {call.path}
    ELSE fully_posted

\* lines 66-71 / 83-88: the root post is accepted; its ts is the thread id
PostRoot ==
    /\ dpc = "root"
    /\ attempts' = attempts + 1
    /\ thread_ts' = ncalls
    /\ trace' = Append(trace, [kind |-> "root", idx |-> 1, thread |-> 0])
    /\ posted' = 1
    /\ dpc' = pc_after_section(call, 1)
    /\ fully_posted' = NoteSequence(trace', thread_ts')
    /\ UNCHANGED <<records, ncalls, call, ret, delivered, failed, stored,
                   posted_content>>
    /\ UNCHANGED <<chunkVars, rankVars, ingestVars, windowVars, walkVars>>

\* lines 74-80: the next section is accepted as a reply in the thread
PostReply ==
    /\ dpc = "replies"
    /\ attempts' = attempts + 1
    /\ trace' = Append(trace, [kind |-> "reply", idx |-> posted + 1,
                               thread |-> thread_ts])
    /\ posted' = posted + 1
    /\ dpc' = pc_after_section(call, posted + 1)
    /\ fully_posted' = NoteSequence(trace', thread_ts)
    /\ UNCHANGED <<records, ncalls, call, thread_ts, ret, delivered, failed,
                   stored, posted_content>>
    /\ UNCHANGED <<chunkVars, rankVars, ingestVars, windowVars, walkVars>>

\* lines 91-98: the sources reply is accepted
PostSources ==
    /\ dpc = "sources"
    /\ attempts' = attempts + 1
    /\ trace' = Append(trace, [kind |-> "sources", idx |-> 0,
                               thread |-> thread_ts])
    /\ dpc' = "mark"
    /\ fully_posted' = NoteSequence(trace', thread_ts)
    /\ UNCHANGED <<records, ncalls, call, posted, thread_ts, ret, delivered,
                   failed, stored, posted_content>>
    /\ UNCHANGED <<chunkVars, rankVars, ingestVars, windowVars, walkVars>>

\* lines 109-115: the target rejects the post the call is at; the error is
\* re-raised to the caller
PostRejected ==
    /\ dpc \in {"root", "replies", "sources"}
    /\ attempts' = attempts + 1
    /\ records' = records_on_reject(call.path)
    /\ ret' = "raised"
    /\ dpc' = "idle"
    /\ failed' = IF call.path # None THEN failed \cup {call.path} ELSE failed
    /\ UNCHANGED <<ncalls, call, posted, thread_ts, trace, delivered,
                   fully_posted, stored, posted_content>>
    /\ UNCHANGED <<chunkVars, rankVars, ingestVars, windowVars, walkVars>>

\* lines 100-107: the record is written and the thread id returned
MarkAndReturn ==
    /\ dpc = "mark"
    /\ records' = mark_as_posted(call.path)
    /\ ret' = "thread"
    /\ dpc' = "idle"
    /\ delivered' = IF call.path # None THEN delivered \cup {call.path}
                    ELSE delivered
    /\ failed' = failed \ {call.path}
    /\ posted_content' =
          IF FromMain(call.path, call.window)
          THEN [posted_content EXCEPT ![call.path] = call.brief]
          ELSE posted_content
    /\ UNCHANGED <<ncalls, call, posted, thread_ts, trace, attempts,
                   fully_posted, stored>>
    /\ UNCHANGED <<chunkVars, rankVars, ingestVars, windowVars, walkVars>>

\* line 226: write_text fails; the OSError leaves post_brief
MarkFails ==
    /\ dpc = "mark"
    /\ call.path # None
    /\ ret' = "raised"
    /\ dpc' = "idle"
    /\ failed' = failed \cup {call.path}
    /\ UNCHANGED <<records, ncalls, call, posted, thread_ts, trace, attempts,
                   delivered, fully_posted, stored, posted_content>>
    /\ UNCHANGED <<chunkVars, rankVars, ingestVars, windowVars, walkVars>>

NextDelivery ==
    \/ PostBriefSkip
    \/ PostBriefStart
    \/ PostRoot
    \/ PostReply
    \/ PostSources
    \/ PostRejected
    \/ MarkAndReturn
    \/ MarkFails

SpecDelivery == InitDelivery /\ [][NextDelivery]_vars

C2_RecordImpliesWholeSequence ==
    /\ records \subseteq fully_posted
    /\ dpc \in {"root", "replies", "sources"} => call.path \notin records
    /\ (ret = "thread" /\ call.path \in records) =>
           trace = FullSequence(call, thread_ts)

\* C2 witness: the record of a brief with several sections and a sources
\* section has been written
C2_Witness ==
    /\ ret = "thread"
    /\ call.path \in records
    /\ Len(Prep(call).sections) >= 3
    /\ Prep(call).sources # <<>>

\* C3: a rejected post ends the call with the error raised and no record of
\* the path; a later call for the path is not short-circuited and starts
\* again with a new root post under a new thread id.
C3_RejectedLeavesNoRecord ==
    /\ ret = "raised" => (dpc = "idle" /\ ~already_posted(call.path))
    /\ failed \cap records = {}
    /\ call.path \in failed =>
           /\ ret # "skipped"
           /\ dpc = "root" => (trace = <<>> /\ thread_ts = 0)
           /\ (ret = "running" /\ trace # <<>>) =>
                  (trace[1].kind = "root" /\ thread_ts = ncalls)

\* C3 witness: after a rejected reply, a later call for the same path has
\* posted a new root
C3_Witness ==
    /\ call.path \in failed
    /\ ret = "running"
    /\ dpc = "replies"
    /\ thread_ts >= 2

\* C13: within one call the accepted posts are, in this order, the root post
\* (once, first, its ts captured as the thread id), then sections 2..n once
\* each in section order as replies under that thread id, then the sources
\* reply under the same thread id as the last post; the record is written
\* only when that sequence is whole.
C13_RootThenRepliesThenSources ==
    LET full == FullSequence(call, thread_ts)
    IN  /\ Len(trace) <= Len(full)
        /\ trace # <<>> =>
               /\ trace = SubSeq(full, 1, Len(trace))
               /\ thread_ts > 0
               /\ \A i \in 2..Len(trace) : trace[i].thread = thread_ts
        /\ trace = <<>> => (thread_ts = 0 /\ posted = 0)
        /\ dpc = "replies" => trace[Len(trace)].kind \in {"root", "reply"}
        /\ dpc = "sources" => Len(trace) = Len(Prep(call).sections)
        /\ dpc = "mark" => trace = full

\* C13 witness: a call whose brief has three or more sections and a sources
\* section has made all its posts and is about to write the record
C13_Witness ==
    /\ dpc = "mark"
    /\ Len(Prep(call).sections) >= 3
    /\ Prep(call).sources # <<>>
    /\ trace[Len(trace)].kind = "sources"
    /\ Len(trace) = Len(Prep(call).sections) + 1

\* the text= argument of the chat_postMessage call that made post
PostText(c, post) ==
    IF post.kind = "root" THEN RootText(c)
    ELSE IF post.kind = "reply" THEN ReplyText(c, post.idx)
    ELSE SourcesText(c)

\* C18 (as claimed): every text handed to the delivery target, the root
\* post with its header, each chunk reply and the sources reply, is at most
\* 4000 characters long.
C18_EveryMessageWithinLimit ==
    \A i \in 1..Len(trace) : Len(PostText(call, trace[i])) <= SlackLimit

\* The trailing sources section of a brief: it begins with the last group of
\* sentinel lines ('---' or '**Sources...', blank lines between them aside).
\* 0 when the brief has no sentinel line.
TrailingSourcesStart(lines) ==
    LET S == {i \in 1..Len(lines) : IsSourcesStart(lines[i])}
    IN  IF S = {} THEN 0
        ELSE LET last == CHOOSE i \in S : \A j \in S : j <= i
                 G == {i \in S : \A j \in i..last :
                          IsSourcesStart(lines[j]) \/ Strip(lines[j]) = <<>>}
             IN  CHOOSE i \in G : \A j \in G : i <= j

\* what the claim has delivery make of brief b: the primary content (all
\* that precedes the trailing sources section) and the sources section
ByTrailingSection(b) ==
    LET lines == SplitLines(Briefs[b])
        t     == TrailingSourcesStart(lines)
    IN  IF t = 0 THEN [main |-> Briefs[b], sources |-> <<>>]
        ELSE [main    |-> Strip(Join(SubSeq(lines, 1, t - 1), <<NL>>)),
              sources |-> Strip(Join(SubSeq(lines, t, Len(lines)), <<NL>>))]

\* per brief: the non-whitespace text of the formatted primary content and
\* the sources section, as ByTrailingSection has them
Separated ==
    [b \in 1..Len(Briefs) |->
        [main    |-> NonWs(format_for_slack(ByTrailingSection(b).main)),
         sources |-> ByTrailingSection(b).sources]]

\* per call: the non-whitespace text of the root post's section and the
\* chunk replies
DeliveredMain ==
    [k \in CallKeys |-> NonWs(Join(Prepared[k].sections, <<NL>>))]

\* C17 (as claimed): when all posts of a call are made, the root post and
\* the chunk replies hold the formatted text of everything that precedes
\* the trailing sources section, and a sources reply is made exactly for a
\* brief that has such a section and holds that section only.
C17_OnlyTrailingSourcesSeparated ==
    dpc = "mark" =>
        /\ DeliveredMain[<<call.brief, call.path, call.window>>] =
               Separated[call.brief].main
        /\ Prep(call).sources = Separated[call.brief].sources
        /\ (trace[Len(trace)].kind = "sources") <=>
               (Separated[call.brief].sources # <<>>)

\* C20 (as claimed): over the runs of main(), each writing its brief at the
\* date-named path and then calling post_brief with that path, whenever the
\* record of a path exists after a run posted it, the brief stored at the
\* path is the brief that was posted.
C20_StoredIsWhatWasPosted ==
    \A p \in records :
        posted_content[p] # 0 => stored[p] = posted_content[p]

(***************************************************************************)
(* weekly_agent.py: get_thursday_window.  A datetime is modelled by its     *)
(* calendar date in America/Denver; subtracting timedelta(days=7) from an  *)
(* aware datetime moves the wall-clock date back seven days.               *)
(***************************************************************************)
IsLeap(y) == (y % 4 = 0 /\ y % 100 # 0) \/ y % 400 = 0

DaysIn(y, m) ==
    IF m = 2 THEN (IF IsLeap(y) THEN 29 ELSE 28)
    ELSE IF m \in {4, 6, 9, 11} THEN 30
    ELSE 31

\* the dates now can be: every day of MaxYears years from 2024 on
Dates ==
    {dt \in [year : 2024..(2023 + MaxYears), month : 1..12, day : 1..31] :
        dt.day <= DaysIn(dt.year, dt.month)}

\* line 32: end_date - timedelta(days=7)
minus_7_days(e) ==
    IF e.day > 7 THEN [e EXCEPT !.day = e.day - 7]
    ELSE LET pm == IF e.month = 1 THEN 12 ELSE e.month - 1
             py == IF e.month = 1 THEN e.year - 1 ELSE e.year
         IN  [year |-> py, month |-> pm, day |-> e.day + DaysIn(py, pm) - 7]

\* strftime('%b'), C locale
MONTH_ABBR ==
    << <<"J", "a", "n">>, <<"F", "e", "b">>, <<"M", "a", "r">>,
       <<"A", "p", "r">>, <<"M", "a", "y">>, <<"J", "u", "n">>,
       <<"J", "u", "l">>, <<"A", "u", "g">>, <<"S", "e", "p">>,
       <<"O", "c", "t">>, <<"N", "o", "v">>, <<"D", "e", "c">> >>

DIGITS == <<"0", "1", "2", "3", "4", "5", "6", "7", "8", "9">>

\* strftime('%d'): the day of the month, zero-padded to two digits
strftime_d(dt) == <<DIGITS[(dt.day \div 10) + 1], DIGITS[(dt.day % 10) + 1]>>

\* strftime('%b %d')
strftime_b_d(dt) == MONTH_ABBR[dt.month] \o <<SP>> \o strftime_d(dt)

EN_DASH == "U2013"

\* mutant of display_label: the month is always written on both sides
display_label_long(start_date, end_date) ==
    strftime_b_d(start_date) \o <<EN_DASH>> \o strftime_b_d(end_date)

\* lines 35-38: date_str
display_label(start_date, end_date) ==
    IF start_date.month = end_date.month
    THEN strftime_b_d(start_date) \o <<EN_DASH>> \o strftime_d(end_date)
    ELSE strftime_b_d(start_date) \o <<EN_DASH>> \o strftime_b_d(end_date)

InitWindow ==
    /\ now \in Dates
    /\ date_str = <<>>
    /\ wpc = "start"
    /\ WalkIdle
    /\ ChunkIdle
    /\ RankIdle
    /\ IngestIdle
    /\ DeliveryIdle

\* get_thursday_window (lines 22-46)
GetThursdayWindow ==
    /\ wpc = "start"
    /\ date_str' = display_label(minus_7_days(now), now)
    /\ wpc' = "done"
    /\ UNCHANGED now
    /\ UNCHANGED <<chunkVars, rankVars, ingestVars, deliveryVars, walkVars>>

NextWindow == GetThursdayWindow

SpecWindow == InitWindow /\ [][NextWindow]_vars

\* a day of November / October of year y
Nov(y, d) == [year |-> y, month |-> 11, day |-> d]
Oct(y, d) == [year |-> y, month |-> 10, day |-> d]

Leaf(mime, data) ==
    [kind |-> "leaf", mimeType |-> mime, data |-> data, parts |-> <<>>]

Multi(parts) ==
    [kind |-> "multi", mimeType |-> "multipart", data |-> "None",
     parts |-> parts]

Leaves ==
    {Leaf("text/plain", "b64A")} \cup
    {Leaf("text/html", d) : d \in {"None", "bad", "b64A", "b64B"}}

\* the body trees of exactly k parts, and the part lists of exactly m parts
RECURSIVE TreesOf(_), ForestsOf(_)
TreesOf(k) ==
    (IF k = 1 THEN Leaves ELSE {}) \cup {Multi(f) : f \in ForestsOf(k - 1)}

ForestsOf(m) ==
    IF m = 0 THEN {<<>>}
    ELSE UNION {{<<t>> \o f : t \in TreesOf(j), f \in ForestsOf(m - j)} :
                   j \in 1..m}

Payloads == UNION {TreesOf(k) : k \in 1..MaxNodes}

\* base64.urlsafe_b64decode(data).decode("utf-8", errors="ignore")
b64decode(data) == IF data = "b64A" THEN "A" ELSE "B"

\* lines 91-98: what visiting leaf p makes of html, whose value was h
walk_leaf(p, h) ==
    IF p.mimeType = "text/html" /\ p.data # "None" /\ p.data # "bad"
    THEN b64decode(p.data)
    ELSE h

\* lines 85-98: walk(p) with html = h on entry; the value of html on exit
RECURSIVE walk(_, _), walk_parts(_, _, _)
walk(p, h) ==
    IF p.kind = "multi" THEN walk_parts(p.parts, 1, h) ELSE walk_leaf(p, h)

walk_parts(parts, i, h) ==
    IF i > Len(parts) THEN h
    ELSE walk_parts(parts, i + 1, walk(parts[i], h))

\* _walk_for_html (lines 83-100)
walk_for_html(p) == walk(p, None)

InitWalk ==
    /\ payload \in Payloads
    /\ html = None
    /\ body_from = "none"
    /\ mpc = "start"
    /\ WindowIdle
    /\ ChunkIdle
    /\ RankIdle
    /\ IngestIdle
    /\ DeliveryIdle

\* lines 158-159: the tree is walked and the body source chosen
WalkForHtml ==
    /\ mpc = "start"
    /\ html' = walk_for_html(payload)
    /\ body_from' = IF html' # None THEN "html" ELSE "snippet"
    /\ mpc' = "done"
    /\ UNCHANGED payload
    /\ UNCHANGED <<chunkVars, rankVars, ingestVars, deliveryVars, windowVars>>

NextWalk == WalkForHtml

SpecWalk == InitWalk /\ [][NextWalk]_vars

\* the leaves of tree p in depth-first document order
RECURSIVE LeavesInOrder(_), LeavesOfParts(_, _)
LeavesInOrder(p) ==
    IF p.kind = "multi" THEN LeavesOfParts(p.parts, 1) ELSE <<p>>

LeavesOfParts(parts, i) ==
    IF i > Len(parts) THEN <<>>
    ELSE LeavesInOrder(parts[i]) \o LeavesOfParts(parts, i + 1)

\* a text/html leaf whose data decodes
Renderable(p) == p.mimeType = "text/html" /\ p.data \in {"b64A", "b64B"}

RenderableLeaves == SelectSeq(LeavesInOrder(payload), Renderable)

\* C15 (as claimed): the walker returns the text of the first renderable
\* text/html part in depth-first order, and nothing when the tree has none,
\* in which case the snippet is the body.
C15_FirstRenderableHtml ==
    mpc = "done" =>
        /\ RenderableLeaves # <<>> =>
               (html = b64decode(RenderableLeaves[1].data) /\ body_from = "html")
        /\ RenderableLeaves = <<>> => (html = None /\ body_from = "snippet")

(***************************************************************************)
(* SpecChunk: the chunker applied to every text over ChunkAlphabet of      *)
(* length <= MaxLen, under every ceiling 1..MaxCeil.                       *)
(***************************************************************************)
ChunkAlphabet == {"a", STAR, SP, NL}

Texts(alphabet, n) == UNION {[1..k -> alphabet] : k \in 0..n}

InitChunk ==
    /\ WindowIdle
    /\ WalkIdle
    /\ content \in Texts(ChunkAlphabet, MaxLen)
    /\ max_length \in 1..MaxCeil
    /\ chunks = <<>>
    /\ cpc = "input"
    /\ RankIdle
    /\ IngestIdle
    /\ DeliveryIdle

Chunk ==
    /\ cpc = "input"
    /\ chunks' = split_at_sections(content, max_length)
    /\ cpc' = "done"
    /\ UNCHANGED <<content, max_length>>
    /\ UNCHANGED <<rankVars, ingestVars, deliveryVars, windowVars, walkVars>>

NextChunk == Chunk

SpecChunk == InitChunk /\ [][NextChunk]_vars

(***************************************************************************)
(* Chunker properties.                                                     *)
(***************************************************************************)
\* the chunks in order with the breaks between them restored
Rejoined == Join(chunks, <<NL>>)

\* a line of the input that alone is longer than the ceiling
OversizedLines ==
    {l \in {SplitLines(content)[i] : i \in 1..Len(SplitLines(content))} :
        Len(Strip(l)) > max_length}

\* C6 (as claimed): every chunk is within the ceiling, the only exception
\* being a single line that alone is longer than the ceiling; such a line is
\* hard-split (it is not returned whole inside one chunk) and no character
\* of it is lost.
C6_ChunkCeilingOrHardSplit ==
    cpc = "done" =>
        /\ \A i \in 1..Len(chunks) :
               Len(chunks[i]) > max_length =>
                   /\ OversizedLines # {}
                   /\ \A j \in 1..Len(chunks[i]) : chunks[i][j] # NL
        /\ \A l \in OversizedLines :
               \A i \in 1..Len(chunks) : ~Contains(chunks[i], Strip(l))
        /\ NonWs(Rejoined) = NonWs(content)

\* C7: joining the returned chunks with the breaks restored gives back the
\* input up to whitespace: the non-whitespace characters are the same, in the
\* same order, none lost and none duplicated.
C7_ChunkRoundTrip ==
    cpc = "done" => NonWs(Rejoined) = NonWs(content)

\* C7 witness: a text without headers, with whitespace to trim, whose open
\* section overflowed, so that several non-empty chunks were returned
C7_Witness ==
    /\ cpc = "done"
    /\ Len(chunks) >= 2
    /\ \A i \in 1..Len(chunks) : chunks[i] # <<>>
    /\ \A j \in 1..Len(content) : content[j] # STAR
    /\ Len(NonWs(content)) + 1 < Len(content)

====
